---------------------------- MODULE Spec2Model ----------------------------
(***************************************************************************)
(* pipewire-virtual-camera (src/src/main.rs): the growable pod Builder     *)
(* (a Vec<u8> grown from the foreign encoder's overflow hook), the         *)
(* builder_add! object grammar, the stream listener callbacks              *)
(* (param_changed, add_buffer, remove_buffer, state_changed, process) and  *)
(* main's start-up sequence.                                               *)
(*                                                                         *)
(* Three specifications share the module:                                  *)
(*   Spec     main and the callbacks the main loop dispatches;             *)
(*   SpecEnc  one Builder driven call by call over an arbitrary Vec<u8>    *)
(*            and an arbitrary property list.                              *)
(*   SpecFrames  one Builder whose frame calls are made in any order.      *)
(***************************************************************************)
EXTENDS Integers, Sequences, FiniteSets, TLC

VARIABLES
    pc,               \* main's position: "start", "connected", "active", "running",
                      \* "build_failed", "failed"
    bgra_data_clone,  \* the BGRA bytes moved into the process closure
    sent,             \* every stream.update_params call so far: [param, pods]
    advertised,       \* the params handed to stream.connect (<<>> before connect)
    last,             \* the callback that ran last and what it did
    panicked,         \* a callback panicked (the process is gone)
    negotiation,      \* observer: the design's NegotiationState after the events so far
    inner,            \* SpecEnc: the Builder under test (BuilderInner, boxed)
    props,            \* SpecEnc: the property list being encoded
    vec0,             \* SpecEnc: the Vec<u8> the Builder was created over
    epc,              \* SpecEnc: position in the object grammar
    ecalls            \* SpecEnc: the encoder calls made so far, in order

vars == <<pc, bgra_data_clone, sent, advertised, last, panicked, negotiation,
          inner, props, vec0, epc, ecalls>>

mainVars == <<pc, bgra_data_clone, sent, advertised, last, panicked, negotiation>>
encVars == <<inner, props, vec0, epc, ecalls>>

(***************************************************************************)
(* Bounds of the model.                                                    *)
(***************************************************************************)
MaxSent == 2      \* update_params calls recorded before the log is full
MaxChunk == 5     \* largest chunk size the session manager reports
MaxSlice == 5     \* largest mapped destination slice
MaxPixels == 1    \* pixels of the largest loaded image
MaxProps == 2     \* SpecEnc: longest property list
NumAddrs == 2     \* SpecEnc: distinct heap blocks an allocation may return

(***************************************************************************)
(* Bytes and words.  All pod fields are native-endian u32; the build       *)
(* targets are little-endian.  Every offset and size of the model is far   *)
(* below 2^32, so the encoder's u32 sums never wrap.                       *)
(***************************************************************************)
Max(a, b) == IF a >= b THEN a ELSE b
Min(a, b) == IF a <= b THEN a ELSE b

Zeros(n) == [i \in 1..n |-> 0]

LE32(v) ==
    << v % 256, (v \div 256) % 256, (v \div 65536) % 256, (v \div 16777216) % 256 >>

\* bytes[off+1 .. off+Len(d)] replaced by d (a memcpy inside the buffer)
Overwrite(bytes, off, d) ==
    [i \in 1..Len(bytes) |->
        IF i > off /\ i <= off + Len(d) THEN d[i - off] ELSE bytes[i]]

(***************************************************************************)
(* Vec<u8>: an allocation (addr, cap) holding Len(bytes) initialised bytes.*)
(* A Vec of capacity 0 holds no allocation; its pointer is dangling.       *)
(***************************************************************************)
Dangling == 0
Addrs == 1..NumAddrs
AllAddrs == {Dangling} \cup Addrs

\* what the allocator answers when a block is reallocated: any block, the
\* same one (grown in place) included, or null (Dangling here): no memory
Allocs == [AllAddrs -> AllAddrs]

\* Vec::resize needs a larger allocation and the allocator has none: Vec
\* calls handle_alloc_error, which aborts the process
alloc_fails(v, new_len, alloc) == new_len > v.cap /\ alloc[v.addr] = Dangling

\* Vec::with_capacity(c): empty, one allocation of c bytes
with_capacity(c, addr) ==
    [addr |-> IF c = 0 THEN Dangling ELSE addr, cap |-> c, bytes |-> <<>>]

\* Vec::resize(new_len, 0): truncates, or zero-fills up to new_len,
\* reallocating (amortised doubling, at least 8 bytes) when cap is short
resize(v, new_len, alloc) ==
    IF new_len <= Len(v.bytes)
    THEN [v EXCEPT !.bytes = SubSeq(v.bytes, 1, new_len)]
    ELSE IF new_len <= v.cap
    THEN [v EXCEPT !.bytes = v.bytes \o Zeros(new_len - Len(v.bytes))]
    ELSE [addr |-> alloc[v.addr],
          cap |-> Max(Max(2 * v.cap, new_len), 8),
          bytes |-> v.bytes \o Zeros(new_len - Len(v.bytes))]


(***************************************************************************)
(* BuilderInner: the foreign spa_pod_builder (the address and size it      *)
(* records for its buffer, its write offset, its stack of open frames) and *)
(* the &mut Vec<u8> it writes into.  These fields record what a call did:  *)
(*   res    the foreign call's return value (negative: an errno),          *)
(*   panic  the hook did not return: an assert!/expect failed in it, or    *)
(*          the allocation inside Vec::resize failed (oom, an abort),      *)
(*   stale  a write went through an address or size that is not the one of *)
(*          the Vec's current storage.                                     *)
(***************************************************************************)
ENOSPC == 28

SPA_TYPE_Id == 3
SPA_TYPE_Rectangle == 10
SPA_TYPE_Fraction == 11
SPA_TYPE_Object == 15

\* Builder::new: spa_pod_builder_init(data.as_mut_ptr(), data.len()), then
\* the box and spa_pod_builder_set_callbacks(&CALLBACKS, &*inner)
new(data) ==
    [builder |-> [data |-> data.addr, size |-> Len(data.bytes),
                  offset |-> 0, frame |-> <<>>],
     data |-> data,
     res |-> 0, panic |-> FALSE, oom |-> FALSE, stale |-> FALSE]

\* overflow_refresh without the data pointer update: the builder keeps the
\* address the Vec had before it was resized
overflow_refresh_StalePointer(this, d) ==
    [this EXCEPT !.data = d,
                 !.builder.size = Len(d.bytes),
                 !.res = 0]

\* the tail of Builder::overflow: the Vec resized to d, the builder's data
\* pointer and size set from it, 0 returned
overflow_refresh(this, d) ==
    [this EXCEPT !.data = d,
                 !.builder.data = d.addr,
                 !.builder.size = Len(d.bytes),
                 !.res = 0]

\* overflow taking size for the number of bytes to add, not the new length
overflow_ResizeLonger(this, size, alloc) ==
    IF ~(size > Len(this.data.bytes))
    THEN [this EXCEPT !.panic = TRUE]
    ELSE IF alloc_fails(this.data, Len(this.data.bytes) + size, alloc)
    THEN [this EXCEPT !.panic = TRUE, !.oom = TRUE]
    ELSE overflow_refresh(this, resize(this.data, Len(this.data.bytes) + size, alloc))

\* Builder::overflow, the hook the encoder calls with the size it needs;
\* it returns 0 (the value left in res) or does not return.  size is a u32
\* and the Vec's new length is size, so the try_into().expect(..) cannot
\* fail; the assert! can, and so can the allocation inside Vec::resize.
overflow(this, size, alloc) ==
    IF ~(size > Len(this.data.bytes))
    THEN [this EXCEPT !.panic = TRUE]
    ELSE IF alloc_fails(this.data, size, alloc)
    THEN [this EXCEPT !.panic = TRUE, !.oom = TRUE]
    ELSE overflow_refresh(this, resize(this.data, size, alloc))

\* a store of d at builder.data + off: it lands in the Vec when the recorded
\* address and size are those of the Vec's storage, and is stale otherwise
Store(b, off, d) ==
    IF b.builder.data = b.data.addr /\ b.builder.size = Len(b.data.bytes)
       /\ off + Len(d) <= Len(b.data.bytes)
    THEN [b EXCEPT !.data.bytes = Overwrite(b.data.bytes, off, d)]
    ELSE [b EXCEPT !.stale = TRUE]

\* raw_room asking the hook for the size of the write, not for the end of
\* the write
raw_room_AsksWriteSize(b, need, alloc) ==
    IF need > b.builder.size
    THEN (IF b.builder.offset <= b.builder.size
          THEN overflow([b EXCEPT !.res = -ENOSPC], need - b.builder.offset, alloc)
          ELSE [b EXCEPT !.res = -ENOSPC])
    ELSE [b EXCEPT !.res = 0]

\* spa_pod_builder_raw, first part: when offset + size exceeds the recorded
\* size the result is -ENOSPC unless the hook, asked for offset + size,
\* answers otherwise
raw_room(b, need, alloc) ==
    IF need > b.builder.size
    THEN (IF b.builder.offset <= b.builder.size
          THEN overflow([b EXCEPT !.res = -ENOSPC], need, alloc)
          ELSE [b EXCEPT !.res = -ENOSPC])
    ELSE [b EXCEPT !.res = 0]

\* raw_advance with the open frames' sizes left as they were at the push
raw_advance_FrameSizeKept(b, size) ==
    [b EXCEPT !.builder.offset = @ + size]

\* spa_pod_builder_raw, last part: the offset and every open frame's size
\* advance whatever the result
raw_advance(b, size) ==
    [b EXCEPT !.builder.offset = @ + size,
              !.builder.frame =
                  [i \in 1..Len(b.builder.frame) |->
                      [b.builder.frame[i] EXCEPT !.size = @ + size]]]

\* spa_pod_builder_raw, middle part: the copy, made when the result is 0
raw_copy(b, off, d) ==
    IF b.panic THEN b
    ELSE raw_advance(IF b.res = 0 THEN Store(b, off, d) ELSE b, Len(d))

spa_pod_builder_raw(b, d, alloc) ==
    raw_copy(raw_room(b, b.builder.offset + Len(d), alloc), b.builder.offset, d)

\* spa_pod_builder_pad: zero bytes up to the next multiple of 8
spa_pod_builder_pad(b, size, alloc) ==
    IF ((size + 7) \div 8) * 8 - size > 0
    THEN spa_pod_builder_raw(b, Zeros(((size + 7) \div 8) * 8 - size), alloc)
    ELSE [b EXCEPT !.res = 0]

\* spa_pod_builder_primitive outside an array or choice body: the pod
\* (header and body), then its padding; a failed padding replaces the result
primitive_res(res, b) ==
    IF b.panic \/ b.res < 0 THEN b ELSE [b EXCEPT !.res = res]

primitive_pad(b, size, alloc) ==
    IF b.panic THEN b ELSE primitive_res(b.res, spa_pod_builder_pad(b, size, alloc))

spa_pod_builder_primitive(b, type, body, alloc) ==
    primitive_pad(spa_pod_builder_raw(b, LE32(Len(body)) \o LE32(type) \o body, alloc),
                  8 + Len(body), alloc)

\* The foreign result on which each wrapper decides Ok or Err.  fail models
\* a negative result of the foreign call itself (nothing is written).
Failed(b) == [b EXCEPT !.res = -ENOSPC]
IsOk(b) == b.res >= 0 /\ ~b.panic

\* Builder::add_id
add_id(b, val, alloc, fail) ==
    IF fail THEN Failed(b)
    ELSE spa_pod_builder_primitive(b, SPA_TYPE_Id, LE32(val), alloc)

\* Builder::add_rectangle
add_rectangle(b, width, height, alloc, fail) ==
    IF fail THEN Failed(b)
    ELSE spa_pod_builder_primitive(b, SPA_TYPE_Rectangle, LE32(width) \o LE32(height), alloc)

\* Builder::add_fraction
add_fraction(b, num, denom, alloc, fail) ==
    IF fail THEN Failed(b)
    ELSE spa_pod_builder_primitive(b, SPA_TYPE_Fraction, LE32(num) \o LE32(denom), alloc)

\* Builder::add_prop: the key and the flags, two words
add_prop(b, key, flags, alloc, fail) ==
    IF fail THEN Failed(b)
    ELSE spa_pod_builder_raw(b, LE32(key) \o LE32(flags), alloc)

\* spa_pod_builder_push: the frame remembers where the object's header
\* starts and the body size written so far
push_frame(b, off) ==
    IF b.panic THEN b
    ELSE [b EXCEPT !.builder.frame =
              Append(@, [offset |-> off, size |-> 8, type |-> SPA_TYPE_Object])]

\* Builder::push_object: the object header with the body size of an empty
\* object (8), then the frame
push_object(b, type_, id, alloc, fail) ==
    IF fail THEN Failed(b)
    ELSE push_frame(
             spa_pod_builder_raw(
                 b, LE32(8) \o LE32(SPA_TYPE_Object) \o LE32(type_) \o LE32(id), alloc),
             b.builder.offset)

\* spa_pod_builder_pop, first part: the frame's final (size, type) header
\* written back at the frame's start offset when the pod lies inside the
\* recorded size
pop_backpatch(b, f) ==
    IF f.offset + 8 + f.size <= b.builder.size
    THEN Store(b, f.offset, LE32(f.size) \o LE32(f.type))
    ELSE b

\* spa_pod_builder_pop, last part: the frame unlinked, the offset padded
pop_unlink(b, alloc) ==
    spa_pod_builder_pad(
        [b EXCEPT !.builder.frame = SubSeq(@, 1, Len(@) - 1)], b.builder.offset, alloc)

\* Builder::pop
pop(b, alloc) ==
    pop_unlink(pop_backpatch(b, b.builder.frame[Len(b.builder.frame)]), alloc)

\* Builder::pop(frame) for any frame the caller holds, the i-th open one
\* counted from the outermost: spa_pod_builder_pop writes that frame's
\* header back and makes the frame's parent the current frame, whatever
\* frames were opened after it
pop_frame_unlink(b, i, alloc) ==
    spa_pod_builder_pad(
        [b EXCEPT !.builder.frame = SubSeq(@, 1, i - 1)], b.builder.offset, alloc)

pop_frame(b, i, alloc) ==
    pop_frame_unlink(pop_backpatch(b, b.builder.frame[i]), i, alloc)

(***************************************************************************)
(* builder_add!: the object grammar.  A property is a key and a typed      *)
(* value, [key, t, a, b]: Id(a), Rectangle{width a, height b} or           *)
(* Fraction{num a, denom b}.                                               *)
(***************************************************************************)
IdProp(key, val) == [key |-> key, t |-> "Id", a |-> val, b |-> 0]
RectangleProp(key, w, h) == [key |-> key, t |-> "Rectangle", a |-> w, b |-> h]
FractionProp(key, n, d) == [key |-> key, t |-> "Fraction", a |-> n, b |-> d]

\* the value arms of the macro: Id, Rectangle, Fraction
builder_add_value(b, p, alloc, fail) ==
    CASE p.t = "Id" -> add_id(b, p.a, alloc, fail)
      [] p.t = "Rectangle" -> add_rectangle(b, p.a, p.b, alloc, fail)
      [] p.t = "Fraction" -> add_fraction(b, p.a, p.b, alloc, fail)

\* The encoder calls of one object are numbered in the order the macro makes
\* them: 1 push_object, 2k add_prop of property k, 2k+1 its value.  failAt
\* is the call whose foreign result is negative (0: none).
KeyStep(k) == 2 * k
ValueStep(k) == 2 * k + 1
NumSteps(plist) == 2 * Len(plist) + 1

\* the $( ... )* repetition from property k on: key, then value, leaving at
\* the first Err
RECURSIVE builder_add_props(_, _, _, _, _)
builder_add_value_then(b, plist, k, failAt, alloc) ==
    IF ~IsOk(b) THEN b ELSE builder_add_props(b, plist, k + 1, failAt, alloc)

\* the key's result not looked at: the value is written after a failed key
builder_add_key_then_NoBreak(b, plist, k, failAt, alloc) ==
    IF b.panic THEN b
    ELSE builder_add_value_then(
             builder_add_value([b EXCEPT !.res = 0], plist[k], alloc, failAt = ValueStep(k)),
             plist, k, failAt, alloc)

builder_add_key_then(b, plist, k, failAt, alloc) ==
    IF ~IsOk(b) THEN b
    ELSE builder_add_value_then(
             builder_add_value(b, plist[k], alloc, failAt = ValueStep(k)),
             plist, k, failAt, alloc)

builder_add_props(b, plist, k, failAt, alloc) ==
    IF k > Len(plist) THEN b
    ELSE builder_add_key_then(
             add_prop(b, plist[k].key, 0, alloc, failAt = KeyStep(k)),
             plist, k, failAt, alloc)

\* the end of the Object arm: pop, then Ok(())
builder_add_pop(b, alloc) ==
    IF ~IsOk(b) THEN b ELSE [pop(b, alloc) EXCEPT !.res = 0]

builder_add_pushed(b, plist, failAt, alloc) ==
    IF ~IsOk(b) THEN b
    ELSE builder_add_pop(builder_add_props(b, plist, 1, failAt, alloc), alloc)

\* the Object arm: push_object, the properties, pop, Ok(()); res < 0 is Err
builder_add(b, type_, id, plist, failAt, alloc) ==
    builder_add_pushed(push_object(b, type_, id, alloc, failAt = 1), plist, failAt, alloc)

(***************************************************************************)
(* The two objects the program builds.                                     *)
(***************************************************************************)
SPA_TYPE_OBJECT_Format == 262147
SPA_PARAM_EnumFormat == 3
SPA_PARAM_Format == 4
SPA_PARAM_Buffers == 7
PARAM_EnumFormat15 == 15

\* the format pod main advertises upfront, as authored in main
UpfrontProps_OtherRate ==
    << IdProp(1, 2),
       IdProp(2, 1),
       IdProp(131073, 12),
       RectangleProp(131075, 640, 480),
       FractionProp(131076, 25, 1) >>

UpfrontProps ==
    << IdProp(1, 2),
       IdProp(2, 1),
       IdProp(131073, 12),
       RectangleProp(131075, 640, 480),
       FractionProp(131076, 30, 1) >>

\* the format pod of param_changed (param 15), as authored there
FormatProps ==
    << IdProp(1, 2),
       IdProp(2, 1),
       IdProp(131073, 12),
       RectangleProp(131075, 640, 480),
       FractionProp(131076, 30, 1) >>

\* the buffer configuration pod of param_changed (param 7)
BufferProps ==
    << IdProp(1, 1),
       IdProp(2, 1228800),
       IdProp(3, 1228800),
       IdProp(4, 30),
       IdProp(5, 0) >>

\* Vec::with_capacity(512) of main and of param_changed
HandlerCapacity == 512
HandlerAlloc == [a \in AllAddrs |-> 1]
HandlerData == with_capacity(HandlerCapacity, 1)

(***************************************************************************)
(* Pods as the session manager receives them.                              *)
(***************************************************************************)
\* the u32 at byte offset off
RD32(bytes, off) ==
    bytes[off + 1] + 256 * bytes[off + 2] + 65536 * bytes[off + 3]
        + 16777216 * bytes[off + 4]

\* Pod::from_bytes: Some when the bytes hold a pod header and the whole
\* padded pod the header announces, None otherwise
from_bytes_is_some(bytes) ==
    /\ Len(bytes) >= 8
    /\ LET size == RD32(bytes, 0) IN
       8 + size + ((8 - (size % 8)) % 8) <= Len(bytes)

\* the pod a Some(&Pod) denotes: the header and the body it announces
PodBytes(bytes) == SubSeq(bytes, 1, 8 + RD32(bytes, 0))

(***************************************************************************)
(* The image: RGBA pixels turned into BGRA bytes (main, before the stream  *)
(* is created).                                                            *)
(***************************************************************************)
Pixel(i) == << 16 * i + 1, 16 * i + 2, 16 * i + 3, 16 * i + 4 >>
Images == { [i \in 1..k |-> Pixel(i)] : k \in 0..MaxPixels }

RECURSIVE bgra_data(_)
bgra_data(img) ==
    IF img = <<>> THEN <<>>
    ELSE << img[1][3], img[1][2], img[1][1], img[1][4] >> \o bgra_data(Tail(img))

(***************************************************************************)
(* The callbacks.  Each operator is the whole closure: what it hands to    *)
(* stream.update_params (calls: at most one [param, pods]) and whether it  *)
(* panics.  The Result of update_params is only printed.                   *)
(***************************************************************************)
Quiet == [calls |-> <<>>, panic |-> FALSE]
Panics == [calls |-> <<>>, panic |-> TRUE]

\* what becomes of a finished build: "Err" when the grammar returned Err,
\* "Panic" when the hook panicked or Pod::from_bytes(..).unwrap() meets
\* None, else "Ok" and the pod
built_pod(b) ==
    IF b.panic THEN [res |-> "Panic", pod |-> <<>>]
    ELSE IF b.res < 0 THEN [res |-> "Err", pod |-> <<>>]
    ELSE IF ~from_bytes_is_some(b.data.bytes) THEN [res |-> "Panic", pod |-> <<>>]
    ELSE [res |-> "Ok", pod |-> PodBytes(b.data.bytes)]

\* one pod built over a fresh Vec::with_capacity(512)
build_pod(id, plist, failAt) ==
    built_pod(builder_add(new(HandlerData), SPA_TYPE_OBJECT_Format, id, plist,
                          failAt, HandlerAlloc))

\* the pods the program builds, per failing encoder call (0: none fails)
FormatPod == [k \in 0..NumSteps(FormatProps) |->
                 build_pod(SPA_PARAM_EnumFormat, FormatProps, k)]
UpfrontPod == [k \in 0..NumSteps(UpfrontProps) |->
                  build_pod(SPA_PARAM_EnumFormat, UpfrontProps, k)]
BufferPod == [k \in 0..NumSteps(BufferProps) |->
                 build_pod(SPA_PARAM_Buffers, BufferProps, k)]

\* send_built without the return on Err: whatever the buffer holds is sent
send_built_NoReturn(param, built) ==
    IF built.res = "Panic" THEN Panics
    ELSE [calls |-> << [param |-> param, pods |-> << built.pod >>] >>, panic |-> FALSE]

\* if let Err(e) = res { return; } ... stream.update_params(&mut params)
send_built(param, built) ==
    IF built.res = "Panic" THEN Panics
    ELSE IF built.res = "Err" THEN Quiet
    ELSE [calls |-> << [param |-> param, pods |-> << built.pod >>] >>, panic |-> FALSE]

\* param_changed with its last branch acknowledging instead of only logging
param_changed_AckUnknown(param, failAt) ==
    IF param = PARAM_EnumFormat15 THEN send_built(param, FormatPod[failAt])
    ELSE IF param = SPA_PARAM_EnumFormat THEN Quiet
    ELSE IF param = SPA_PARAM_Buffers THEN send_built(param, BufferPod[failAt])
    ELSE [calls |-> << [param |-> param, pods |-> <<>>] >>, panic |-> FALSE]

\* the param_changed closure
param_changed(param, failAt) ==
    IF param = PARAM_EnumFormat15 THEN send_built(param, FormatPod[failAt])
    ELSE IF param = SPA_PARAM_EnumFormat THEN Quiet
    ELSE IF param = SPA_PARAM_Format
    THEN [calls |-> << [param |-> param, pods |-> <<>>] >>, panic |-> FALSE]
    ELSE IF param = SPA_PARAM_Buffers THEN send_built(param, BufferPod[failAt])
    ELSE Quiet

\* the destination slice as the session manager hands it over
DstBefore(len) == [i \in 1..len |-> 255]

\* process with the slice index unchecked: copy_size bytes are written
\* whatever the slice's length
process_Unchecked(src, dequeued, ndatas, chunk_size, slice) ==
    IF ~dequeued \/ ndatas = 0 \/ slice < 0
    THEN [copied |-> -1, dst |-> <<>>, panic |-> FALSE]
    ELSE [copied |-> Min(chunk_size, Len(src)),
          dst |-> Overwrite(DstBefore(slice), 0,
                            SubSeq(src, 1, Min(chunk_size, Len(src)))),
          panic |-> FALSE]

\* the process closure: dequeued (dequeue_buffer is Some), ndatas
\* (buffer.datas_mut().len()), chunk_size (data.chunk().size()), slice (the
\* length of data.data(), -1 for None).  copied is -1 when no copy is made.
process(src, dequeued, ndatas, chunk_size, slice) ==
    IF ~dequeued \/ ndatas = 0 \/ slice < 0
    THEN [copied |-> -1, dst |-> <<>>, panic |-> FALSE]
    ELSE LET copy_size == Min(chunk_size, Len(src)) IN
         IF copy_size > slice
         THEN [copied |-> -1, dst |-> DstBefore(slice), panic |-> TRUE]
         ELSE [copied |-> copy_size,
               dst |-> Overwrite(DstBefore(slice), 0, SubSeq(src, 1, copy_size)),
               panic |-> FALSE]

(***************************************************************************)
(* The design's transition table (spec 4.3), kept as an observer of the    *)
(* events delivered; the closures neither read nor write it.               *)
(***************************************************************************)
EnumFormatIds == {SPA_PARAM_EnumFormat, PARAM_EnumFormat15}
RecognizedIds == EnumFormatIds \cup {SPA_PARAM_Format, SPA_PARAM_Buffers}

TableNext(st, cb, param, failed) ==
    IF cb = "param_changed" /\ param \in EnumFormatIds
    THEN (IF failed THEN st ELSE "FormatAdvertised")
    ELSE IF cb = "param_changed" /\ param = SPA_PARAM_Format /\ st = "FormatAdvertised"
    THEN "FormatNegotiated"
    ELSE IF cb = "param_changed" /\ param = SPA_PARAM_Buffers /\ st = "FormatNegotiated"
    THEN (IF failed THEN st ELSE "BuffersNegotiated")
    ELSE IF cb = "process" /\ st = "BuffersNegotiated"
    THEN "Streaming"
    ELSE st

(***************************************************************************)
(* Spec: main, then the callbacks the main loop dispatches one at a time.  *)
(***************************************************************************)
ParamIds == {2, 3, 4, 5, 7, 15, 16}

\* the encoder calls of a callback that can report failure
FailPoints(param) ==
    IF param = PARAM_EnumFormat15 THEN 0..NumSteps(FormatProps)
    ELSE IF param = SPA_PARAM_Buffers THEN 0..NumSteps(BufferProps)
    ELSE {0}

NoCallback ==
    [cb |-> "none", param |-> 0, failAt |-> 0, calls |-> 0,
     dequeued |-> FALSE, ndatas |-> 0, chunk |-> 0, slice |-> -1,
     copied |-> -1, dst |-> <<>>]

\* SpecEnc's variables while Spec runs
EncIdle ==
    /\ inner = new(with_capacity(0, 1))
    /\ props = <<>>
    /\ vec0 = with_capacity(0, 1)
    /\ epc = [at |-> "idle", k |-> 0]
    /\ ecalls = <<>>

\* main has loaded the image, created the stream and registered the listener
Init ==
    /\ EncIdle
    /\ pc = "start"
    /\ \E img \in Images : bgra_data_clone = bgra_data(img)
    /\ sent = <<>>
    /\ advertised = <<>>
    /\ last = NoCallback
    /\ panicked = FALSE
    /\ negotiation = "Idle"

\* main with the return on Err of the upfront build left out: it goes on to
\* stream.connect with whatever was built
main_connect_NoReturn(built, ok) ==
    [pc |-> IF ok THEN "connected" ELSE "failed",
     advertised |-> << built.pod >>,
     panic |-> FALSE]

\* main from the upfront format pod to stream.connect: an Err of the build
\* returns Err before Pod::from_bytes and connect ("build_failed"); Ok goes
\* on to stream.connect(.., &mut params)?, whose Err returns too ("failed")
main_connect(built, ok) ==
    IF built.res = "Panic"
    THEN [pc |-> "failed", advertised |-> <<>>, panic |-> TRUE]
    ELSE IF built.res = "Err"
    THEN [pc |-> "build_failed", advertised |-> <<>>, panic |-> FALSE]
    ELSE [pc |-> IF ok THEN "connected" ELSE "failed",
          advertised |-> << built.pod >>,
          panic |-> FALSE]

\* main: the upfront format pod and stream.connect.  advertised is what
\* stream.connect was called with (empty: it was not called).
MainConnect ==
    /\ pc = "start"
    /\ \E failAt \in 0..NumSteps(UpfrontProps), ok \in BOOLEAN :
         LET r == main_connect(UpfrontPod[failAt], ok) IN
         /\ panicked' = r.panic
         /\ advertised' = r.advertised
         /\ pc' = r.pc
         /\ last' = [NoCallback EXCEPT !.cb = "main", !.failAt = failAt]
    /\ UNCHANGED <<bgra_data_clone, sent, negotiation>>
    /\ UNCHANGED encVars

\* main: stream.set_active(true)?
MainSetActive ==
    /\ pc = "connected"
    /\ \E ok \in BOOLEAN : pc' = IF ok THEN "active" ELSE "failed"
    /\ UNCHANGED <<bgra_data_clone, sent, advertised, last, panicked, negotiation>>
    /\ UNCHANGED encVars

\* main: main_loop.run()
MainRun ==
    /\ pc = "active"
    /\ pc' = "running"
    /\ UNCHANGED <<bgra_data_clone, sent, advertised, last, panicked, negotiation>>
    /\ UNCHANGED encVars

Dispatching == pc = "running" /\ ~panicked

StateChanged ==
    /\ Dispatching
    /\ last' = [NoCallback EXCEPT !.cb = "state_changed"]
    /\ negotiation' = TableNext(negotiation, "state_changed", 0, FALSE)
    /\ UNCHANGED <<pc, bgra_data_clone, sent, advertised, panicked>>
    /\ UNCHANGED encVars

ParamChanged ==
    /\ Dispatching
    /\ \E param \in ParamIds : \E failAt \in FailPoints(param) :
         LET r == param_changed(param, failAt) IN
         /\ Len(sent) + Len(r.calls) <= MaxSent
         /\ sent' = sent \o r.calls
         /\ panicked' = r.panic
         /\ last' = [NoCallback EXCEPT !.cb = "param_changed", !.param = param,
                                       !.failAt = failAt, !.calls = Len(r.calls)]
         /\ negotiation' = TableNext(negotiation, "param_changed", param, failAt # 0)
    /\ UNCHANGED <<pc, bgra_data_clone, advertised>>
    /\ UNCHANGED encVars

AddBuffer ==
    /\ Dispatching
    /\ last' = [NoCallback EXCEPT !.cb = "add_buffer"]
    /\ negotiation' = TableNext(negotiation, "add_buffer", 0, FALSE)
    /\ UNCHANGED <<pc, bgra_data_clone, sent, advertised, panicked>>
    /\ UNCHANGED encVars

RemoveBuffer ==
    /\ Dispatching
    /\ last' = [NoCallback EXCEPT !.cb = "remove_buffer"]
    /\ negotiation' = TableNext(negotiation, "remove_buffer", 0, FALSE)
    /\ UNCHANGED <<pc, bgra_data_clone, sent, advertised, panicked>>
    /\ UNCHANGED encVars

\* what dequeue_buffer and the buffer's first data can be on a tick: no
\* buffer, a buffer without datas, or a data with its chunk size and its
\* mapped slice (-1: data.data() is None)
Ticks ==
    { [dequeued |-> FALSE, ndatas |-> 0, chunk |-> 0, slice |-> -1],
      [dequeued |-> TRUE, ndatas |-> 0, chunk |-> 0, slice |-> -1] } \cup
    { [dequeued |-> TRUE, ndatas |-> 1, chunk |-> c, slice |-> sl] :
        c \in 0..MaxChunk, sl \in -1..MaxSlice }

Process ==
    /\ Dispatching
    /\ \E t \in Ticks :
         LET r == process(bgra_data_clone, t.dequeued, t.ndatas, t.chunk, t.slice) IN
         /\ panicked' = r.panic
         /\ last' = [NoCallback EXCEPT !.cb = "process", !.dequeued = t.dequeued,
                                       !.ndatas = t.ndatas, !.chunk = t.chunk,
                                       !.slice = t.slice, !.copied = r.copied,
                                       !.dst = r.dst]
         /\ negotiation' = TableNext(negotiation, "process", 0, FALSE)
    /\ UNCHANGED <<pc, bgra_data_clone, sent, advertised>>
    /\ UNCHANGED encVars

Next ==
    \/ MainConnect
    \/ MainSetActive
    \/ MainRun
    \/ StateChanged
    \/ ParamChanged
    \/ AddBuffer
    \/ RemoveBuffer
    \/ Process

Spec == Init /\ [][Next]_vars

(***************************************************************************)
(* SpecEnc: one Builder over an arbitrary Vec<u8>, driven through the      *)
(* Object arm of builder_add! one encoder call at a time.  Each call may   *)
(* reallocate the Vec to any block and may report failure.                 *)
(***************************************************************************)
PropPool ==
    { IdProp(1, 2), RectangleProp(131075, 640, 480), FractionProp(131076, 30, 1) }

PropLists == UNION { [1..n -> PropPool] : n \in 0..MaxProps }

\* bytes of an object of n properties: 16 of header, 24 per property
ObjectSize(n) == 16 + 24 * n

\* a Vec of len bytes already in use (their content is not zero)
UsedVec(len, cap) ==
    [addr |-> IF cap = 0 THEN Dangling ELSE 1, cap |-> cap, bytes |-> [i \in 1..len |-> 170]]

\* the Vecs a Builder is created over: empty, too short, exactly as long as
\* the object, longer; with no spare capacity or with the handlers' 512
InitLens(n) == {0, 8, 20, ObjectSize(n), ObjectSize(n) + 8}
InitVecs(n) ==
    UNION { { UsedVec(len, len), UsedVec(len, HandlerCapacity) } : len \in InitLens(n) }

\* Spec's variables while SpecEnc runs
MainIdle ==
    /\ pc = "encoder"
    /\ bgra_data_clone = <<>>
    /\ sent = <<>>
    /\ advertised = <<>>
    /\ last = NoCallback
    /\ panicked = FALSE
    /\ negotiation = "Idle"

InitEnc ==
    /\ MainIdle
    /\ \E plist \in PropLists :
         /\ props = [type_ |-> SPA_TYPE_OBJECT_Format, id |-> SPA_PARAM_EnumFormat,
                     list |-> plist]
         /\ vec0 \in InitVecs(Len(plist))
    /\ inner = new(vec0)
    /\ epc = [at |-> "push", k |-> 0]
    /\ ecalls = <<>>

\* AfterCall without the break on Err: the grammar goes on to the next call
AfterCall_NoBreak(b, at, k) ==
    IF b.panic THEN [at |-> "panic", k |-> k]
    ELSE [at |-> at, k |-> k]

\* where the grammar goes after a call: out at the first Err
AfterCall(b, at, k) ==
    IF b.panic THEN [at |-> "panic", k |-> k]
    ELSE IF b.res < 0 THEN [at |-> "err", k |-> k]
    ELSE [at |-> at, k |-> k]

\* after the value of property k: the next key, or the closing pop
AfterValue(k) == IF k < Len(props.list) THEN "key" ELSE "pop"

EncPush ==
    /\ epc.at = "push"
    /\ \E alloc \in Allocs, fail \in BOOLEAN :
         /\ inner' = push_object(inner, props.type_, props.id, alloc, fail)
         /\ epc' = AfterCall(inner', AfterValue(0), 1)
    /\ ecalls' = Append(ecalls, "push_object")
    /\ UNCHANGED <<props, vec0>>
    /\ UNCHANGED mainVars

EncKey ==
    /\ epc.at = "key"
    /\ \E alloc \in Allocs, fail \in BOOLEAN :
         /\ inner' = add_prop(inner, props.list[epc.k].key, 0, alloc, fail)
         /\ epc' = AfterCall(inner', "value", epc.k)
    /\ ecalls' = Append(ecalls, "add_prop")
    /\ UNCHANGED <<props, vec0>>
    /\ UNCHANGED mainVars

EncValue ==
    /\ epc.at = "value"
    /\ \E alloc \in Allocs, fail \in BOOLEAN :
         /\ inner' = builder_add_value(inner, props.list[epc.k], alloc, fail)
         /\ epc' = AfterCall(inner', AfterValue(epc.k), epc.k + 1)
    /\ ecalls' = Append(ecalls, props.list[epc.k].t)
    /\ UNCHANGED <<props, vec0>>
    /\ UNCHANGED mainVars

EncPop ==
    /\ epc.at = "pop"
    /\ \E alloc \in Allocs :
         /\ inner' = [pop(inner, alloc) EXCEPT !.res = 0]
         /\ epc' = [at |-> IF inner'.panic THEN "panic" ELSE "done", k |-> epc.k]
    /\ ecalls' = Append(ecalls, "pop")
    /\ UNCHANGED <<props, vec0>>
    /\ UNCHANGED mainVars

NextEnc ==
    \/ EncPush
    \/ EncKey
    \/ EncValue
    \/ EncPop

SpecEnc == InitEnc /\ [][NextEnc]_vars

(***************************************************************************)
(* SpecFrames: the Builder's frame calls as any caller of the type can     *)
(* make them: push_object (nested, as the value of a property), a          *)
(* property, pop of any frame the caller holds, and Pod::from_bytes over   *)
(* the Vec, which is how the program completes a message.                  *)
(***************************************************************************)
MaxDepth == 2
MaxCalls == 4

FrameVecs == { UsedVec(0, 0), UsedVec(0, HandlerCapacity), UsedVec(8, 8) }

FrCall(op, i) == [op |-> op, frame |-> i]

FrOpen == epc.at = "open" /\ Len(ecalls) < MaxCalls

InitFrames ==
    /\ pc = "frames"
    /\ bgra_data_clone = <<>>
    /\ sent = <<>>
    /\ advertised = <<>>
    /\ last = NoCallback
    /\ panicked = FALSE
    /\ negotiation = "Idle"
    /\ props = [type_ |-> SPA_TYPE_OBJECT_Format, id |-> SPA_PARAM_EnumFormat,
                list |-> <<>>]
    /\ vec0 \in FrameVecs
    /\ inner = new(vec0)
    /\ epc = [at |-> "open", k |-> 0]
    /\ ecalls = <<>>

\* push_object: the message's one top-level object, or inside an open
\* object the value of a property
FrPushIn(b, alloc) ==
    IF b.builder.frame = <<>> THEN b ELSE add_prop(b, 6, 0, alloc, FALSE)

FrPush ==
    /\ FrOpen
    /\ Len(inner.builder.frame) < MaxDepth
    /\ inner.builder.frame # <<>> \/ inner.builder.offset = 0
    /\ \E alloc \in Allocs :
         inner' = push_object(FrPushIn(inner, alloc), props.type_, props.id, alloc, FALSE)
    /\ epc' = AfterCall(inner', "open", 0)
    /\ ecalls' = Append(ecalls, FrCall("push_object", Len(inner.builder.frame) + 1))
    /\ UNCHANGED <<props, vec0>>
    /\ UNCHANGED mainVars

\* one property of the innermost open object: add_prop, then add_id
FrProp ==
    /\ FrOpen
    /\ inner.builder.frame # <<>>
    /\ \E alloc \in Allocs :
         inner' = add_id(add_prop(inner, 1, 0, alloc, FALSE), 2, alloc, FALSE)
    /\ epc' = AfterCall(inner', "open", 0)
    /\ ecalls' = Append(ecalls, FrCall("add_prop", Len(inner.builder.frame)))
    /\ UNCHANGED <<props, vec0>>
    /\ UNCHANGED mainVars

\* pop of the i-th open frame
FrPop ==
    /\ FrOpen
    /\ \E i \in 1..Len(inner.builder.frame) : \E alloc \in Allocs :
         /\ inner' = pop_frame(inner, i, alloc)
         /\ ecalls' = Append(ecalls, FrCall("pop", i))
    /\ epc' = AfterCall(inner', "open", 0)
    /\ UNCHANGED <<props, vec0>>
    /\ UNCHANGED mainVars

\* Pod::from_bytes(&data): Some(pod) is the message handed on
FrFinish ==
    /\ epc.at = "open"
    /\ ecalls # <<>>
    /\ epc' = [at |-> IF from_bytes_is_some(inner.data.bytes) THEN "finished" ELSE "none",
               k |-> 0]
    /\ UNCHANGED <<inner, props, vec0, ecalls>>
    /\ UNCHANGED mainVars

NextFrames ==
    \/ FrPush
    \/ FrProp
    \/ FrPop
    \/ FrFinish

SpecFrames == InitFrames /\ [][NextFrames]_vars

(***************************************************************************)
(* Reading a pod back (spec 6): [size][type][object type][id], then per    *)
(* property [key][flags][value size][value type][value, padded to 8].      *)
(* Used by the properties below only.                                      *)
(***************************************************************************)
ValueKind(t) ==
    IF t = 3 THEN "Id" ELSE IF t = 10 THEN "Rectangle"
    ELSE IF t = 11 THEN "Fraction" ELSE "Other"

RECURSIVE DecodeProps(_, _)
DecodeProps(pod, off) ==
    IF off + 20 > Len(pod) THEN <<>>
    ELSE << [key |-> RD32(pod, off),
             t |-> ValueKind(RD32(pod, off + 12)),
             a |-> RD32(pod, off + 16),
             b |-> IF RD32(pod, off + 8) > 4 THEN RD32(pod, off + 20) ELSE 0] >>
         \o DecodeProps(pod, off + 16 + ((RD32(pod, off + 8) + 7) \div 8) * 8)

\* the object a pod holds; whole: its size word covers exactly its bytes
Decode(pod) ==
    IF Len(pod) < 16 THEN [whole |-> FALSE, type_ |-> 0, id |-> 0, list |-> <<>>]
    ELSE [whole |-> RD32(pod, 0) + 8 = Len(pod) /\ RD32(pod, 4) = 15,
          type_ |-> RD32(pod, 8), id |-> RD32(pod, 12),
          list |-> DecodeProps(pod, 16)]

Object(type_, id, plist) == [whole |-> TRUE, type_ |-> type_, id |-> id, list |-> plist]

IsFormatObject(pods) ==
    Len(pods) = 1 /\ Decode(pods[1]) = Object(262147, 3, FormatProps)
IsBuffersObject(pods) ==
    Len(pods) = 1 /\ Decode(pods[1]).whole /\ Decode(pods[1]).id = 7

\* the byte size of one frame of the advertised format and its rate
FrameBytes == FormatProps[4].a * FormatProps[4].b * 4
FrameRate == FormatProps[5].a

LastSent == sent[Len(sent)]
ParamEvent == last.cb = "param_changed"
ParamEventNext == last'.cb = "param_changed"

(***************************************************************************)
(* C1.  Every param-changed event whose id is an EnumFormat query (3 or    *)
(* 15) is answered with one update_params call carrying the format        *)
(* object before the callback returns.  (Stated for events in which no     *)
(* encoder call fails.)  The code contradicts it: id 3 is only logged.     *)
(***************************************************************************)
C1_EnumFormatAlwaysAnswered ==
    (ParamEvent /\ last.param \in EnumFormatIds /\ last.failAt = 0)
        => /\ last.calls = 1
           /\ Len(sent) > 0
           /\ LastSent.param = last.param
           /\ IsFormatObject(LastSent.pods)

(***************************************************************************)
(* C2.  A buffers object is sent on a Buffers query (id 7) only when the   *)
(* negotiation is in FormatNegotiated; in any other state the query is     *)
(* ignored: nothing is sent and the state is unchanged.  The code          *)
(* contradicts it: id 7 is answered in every state.                        *)
(***************************************************************************)
C2_BuffersOnlyWhenFormatNegotiated ==
    [][ (ParamEventNext /\ last'.param = SPA_PARAM_Buffers
            /\ negotiation # "FormatNegotiated")
        => (sent' = sent /\ negotiation' = negotiation) ]_vars

(***************************************************************************)
(* C3.  A Format selection (id 4) never sends a format or buffers object:  *)
(* in FormatAdvertised it is accepted with at most an empty                *)
(* acknowledgement and the state becomes FormatNegotiated; in every other  *)
(* state it is ignored, no message and no state change.  The code          *)
(* contradicts the last part: id 4 is acknowledged in every state.         *)
(***************************************************************************)
C3_FormatSelectionPerTable ==
    [][ (ParamEventNext /\ last'.param = SPA_PARAM_Format)
        => IF negotiation = "FormatAdvertised"
           THEN /\ negotiation' = "FormatNegotiated"
                /\ \/ sent' = sent
                   \/ sent' = Append(sent, [param |-> SPA_PARAM_Format, pods |-> <<>>])
           ELSE sent' = sent /\ negotiation' = negotiation ]_vars

(***************************************************************************)
(* C4.  A param-changed event whose id is none of the recognized ids       *)
(* (3, 15, 4, 7) changes nothing and sends nothing, in every state.        *)
(***************************************************************************)
C4_UnrecognizedParamIgnored ==
    [][ (ParamEventNext /\ last'.param \notin RecognizedIds)
        => UNCHANGED <<pc, bgra_data_clone, sent, advertised, panicked, negotiation>> ]_vars

\* an unrecognized id delivered in mid-negotiation, after messages were sent
C4_Witness ==
    /\ ParamEvent /\ last.param \notin RecognizedIds
    /\ Len(sent) = 2
    /\ negotiation = "BuffersNegotiated"

(***************************************************************************)
(* C5.  Idempotent negotiation: any two EnumFormat queries that are        *)
(* answered, whatever was delivered before or between them, carry          *)
(* byte-identical format objects; a query already answered is answered     *)
(* again (one more update_params call, no panic).                          *)
(***************************************************************************)
C5_IdempotentFormatAnswers ==
    /\ \A i, j \in 1..Len(sent) :
         (sent[i].param \in EnumFormatIds /\ sent[j].param \in EnumFormatIds)
            => sent[i].pods = sent[j].pods
    /\ (ParamEvent /\ last.param = PARAM_EnumFormat15 /\ last.failAt = 0)
          => /\ ~panicked
             /\ last.calls = 1
             /\ LastSent.param = PARAM_EnumFormat15
             /\ IsFormatObject(LastSent.pods)

\* the query answered a second time
C5_Witness ==
    /\ Len(sent) = 2
    /\ sent[1].param = PARAM_EnumFormat15 /\ sent[2].param = PARAM_EnumFormat15
    /\ ParamEvent /\ last.param = PARAM_EnumFormat15 /\ last.calls = 1

(***************************************************************************)
(* C6.  When an encoder call reports failure while param_changed builds a  *)
(* format or buffers object, that event hands nothing to the session       *)
(* manager and changes no state; the next event with the same id whose     *)
(* encoder calls succeed sends a whole new object.                         *)
(***************************************************************************)
C6_FailedBuildSendsNothing ==
    [][ /\ (ParamEventNext /\ last'.failAt # 0)
            => UNCHANGED <<pc, bgra_data_clone, sent, advertised, panicked>>
        /\ (ParamEvent /\ last.failAt # 0 /\ ParamEventNext
              /\ last'.param = last.param /\ last'.failAt = 0)
            => /\ Len(sent') = Len(sent) + 1
               /\ sent'[Len(sent')].param = last.param
               /\ Len(sent'[Len(sent')].pods) = 1
               /\ Decode(sent'[Len(sent')].pods[1]) =
                     Object(262147, IF last.param = SPA_PARAM_Buffers THEN 7 ELSE 3,
                            IF last.param = SPA_PARAM_Buffers THEN BufferProps
                            ELSE FormatProps) ]_vars

\* a build that failed at its last value, after an earlier answer was sent
C6_Witness ==
    /\ ParamEvent /\ last.param = SPA_PARAM_Buffers
    /\ last.failAt = NumSteps(BufferProps)
    /\ last.calls = 0
    /\ Len(sent) = 1

(***************************************************************************)
(* C9.  On a capture tick with a destination region of capacity c (the     *)
(* mapped slice) and a source of n bytes, process copies exactly min(c, n) *)
(* bytes, source prefix to destination prefix, and reports no error for    *)
(* any c.  The code contradicts it: it copies min(chunk size, n) bytes and *)
(* panics when that exceeds the slice.                                     *)
(***************************************************************************)
C9_CopiesMinOfCapacityAndSource ==
    (last.cb = "process" /\ last.dequeued /\ last.ndatas > 0 /\ last.slice >= 0)
        => /\ ~panicked
           /\ last.copied = Min(last.slice, Len(bgra_data_clone))
           /\ SubSeq(last.dst, 1, last.copied) = SubSeq(bgra_data_clone, 1, last.copied)

(***************************************************************************)
(* C10.  The buffers object sent on a Buffers query carries the keys       *)
(* buffer-count, block-count, block-size, stride, alignment (1..5) in that *)
(* order; block-size is 1,228,800 = 640 x 480 x 4; block-count and stride  *)
(* are not the frame byte size or the frame rate.  The code contradicts    *)
(* the last part: blocks is 1,228,800 and stride is 30.                    *)
(***************************************************************************)
C10_BuffersObjectValues ==
    \A i \in 1..Len(sent) :
        sent[i].param = SPA_PARAM_Buffers
            => /\ IsBuffersObject(sent[i].pods)
               /\ LET o == Decode(sent[i].pods[1]) IN
                  /\ [k \in 1..Len(o.list) |-> o.list[k].key] = <<1, 2, 3, 4, 5>>
                  /\ o.list[3].a = 1228800
                  /\ o.list[3].a = FrameBytes
                  /\ o.list[2].a # FrameBytes
                  /\ o.list[4].a # FrameRate

(***************************************************************************)
(* C7.  Between encoder operations the address and size the encoder        *)
(* records for its buffer are the address and length of the Vec's current  *)
(* storage, and no write went through an address or size that a growth     *)
(* replaced, however many growths occurred and at whatever nesting depth.  *)
(***************************************************************************)
C7_RecordedStorageIsCurrent ==
    /\ inner.builder.data = inner.data.addr
    /\ inner.builder.size = Len(inner.data.bytes)
    /\ ~inner.stale

\* the Vec moved to another block while a frame was open and a property
\* was being written
C7_Witness ==
    /\ vec0.addr = 1 /\ inner.data.addr = 2
    /\ inner.data.cap > vec0.cap
    /\ Len(inner.builder.frame) = 1
    /\ epc.at = "value"
    /\ inner.builder.offset > 16

(***************************************************************************)
(* C8.  Growth correctness.  The same property list encoded into a Vec     *)
(* that is too short (so the hook grows it) and into a Vec pre-sized so    *)
(* that no growth happens.                                                 *)
(***************************************************************************)
\* the list of SpecEnc's run encoded in one go into a Vec of len bytes
PreSized(len) ==
    builder_add(new(UsedVec(len, len)), props.type_, props.id, props.list, 0, HandlerAlloc)

\* SpecEnc's run is complete and the hook had to grow the Vec
Grown == epc.at = "done" /\ Len(vec0.bytes) < inner.builder.offset

\* C8 as stated: the two output buffers are identical, total length included
C8_GrownEqualsPresized ==
    Grown => \A len \in {inner.builder.offset, inner.builder.offset + 8} :
                 PreSized(len).data.bytes = inner.data.bytes

PresizedAgrees(p, len, n) ==
    /\ p.res = 0 /\ ~p.panic /\ ~p.stale
    /\ p.builder.offset = n
    /\ Len(p.data.bytes) = len
    /\ SubSeq(p.data.bytes, 1, n) = inner.data.bytes
    /\ \A i \in (n + 1)..len : p.data.bytes[i] = 170

\* C8 as amended: the grown buffer is exactly the n bytes written, and they
\* are the first n bytes of the pre-sized buffer, which keeps its length
C8_GrownEqualsPresizedPrefix ==
    Grown => /\ Len(inner.data.bytes) = inner.builder.offset
             /\ \A len \in {inner.builder.offset, inner.builder.offset + 8} :
                   PresizedAgrees(PreSized(len), len, inner.builder.offset)

\* two properties encoded from a Vec of length 0 that had to move
C8_Witness ==
    /\ Grown
    /\ Len(vec0.bytes) = 0
    /\ Len(props.list) = 2
    /\ inner.data.addr # vec0.addr

(***************************************************************************)
(* C11.  If an encoder call fails while main builds the upfront format     *)
(* object, main returns an error: stream.connect is not called, the stream *)
(* is never set active and the main loop never runs.  stream.connect is    *)
(* called only with the complete format object, set_active only after a    *)
(* successful connect and main_loop.run only after set_active.             *)
(***************************************************************************)
C11_ConnectOnlyAfterUpfrontBuild ==
    /\ [](/\ (last.cb = "main" /\ last.failAt # 0)
               => (pc = "build_failed" /\ advertised = <<>>)
          /\ pc = "build_failed"
               => (advertised = <<>> /\ sent = <<>> /\ last.cb = "main")
          /\ advertised # <<>>
               => (advertised = << UpfrontPod[0].pod >> /\ IsFormatObject(advertised))
          /\ pc \in {"connected", "active", "running"} => advertised # <<>>)
    /\ [][ /\ pc \in {"build_failed", "failed"} => FALSE
           /\ (pc' = "connected" /\ pc # "connected") => pc = "start"
           /\ (pc' = "active" /\ pc # "active") => pc = "connected"
           /\ (pc' = "running" /\ pc # "running") => pc = "active" ]_vars

\* the upfront build failed at its last value: main returned before connect
C11_Witness ==
    /\ pc = "build_failed"
    /\ last.cb = "main" /\ last.failAt = NumSteps(UpfrontProps)
    /\ advertised = <<>>

(***************************************************************************)
(* C12.  No callback panics: after every param_changed (any id, built with *)
(* or without a failing encoder call), add_buffer, remove_buffer,          *)
(* state_changed and process event, with any chunk size and destination    *)
(* slice, the callback has returned normally.  The code contradicts it:    *)
(* process indexes the slice by min(chunk size, source length) and panics  *)
(* when the slice is shorter.                                              *)
(***************************************************************************)
C12_NoHandlerPanics ==
    last.cb \in {"param_changed", "add_buffer", "remove_buffer",
                 "state_changed", "process"}
        => ~panicked

(***************************************************************************)
(* C13.  Frames form a stack: a pop of a frame that is not the innermost   *)
(* open frame is rejected (the builder is left as it was), and completing  *)
(* a message while a frame is open is rejected, so that every message      *)
(* handed on is one whole, well-nested object.  The code contradicts it:   *)
(* Builder::pop forwards any frame to spa_pod_builder_pop, and             *)
(* Pod::from_bytes accepts the bytes of an object that was never closed.   *)
(***************************************************************************)
C13_FrameNestingEnforced ==
    /\ [][ \A i \in 1..MaxDepth :
             (ecalls' = Append(ecalls, FrCall("pop", i))
                 /\ i < Len(inner.builder.frame))
             => inner' = inner ]_vars
    /\ [](epc.at = "finished"
            => /\ inner.builder.frame = <<>>
               /\ Decode(PodBytes(inner.data.bytes)).whole
               /\ RD32(inner.data.bytes, 0) + 8 = inner.builder.offset)

(***************************************************************************)
(* C14.  When a growth request cannot be satisfied, the hook reports       *)
(* failure as a return value: the write in progress is not unwound or      *)
(* aborted, the build ends with an error, and the Vec and the address and  *)
(* size the builder records for it stay consistent.  The code contradicts  *)
(* it: the hook can only return 0, and a failed allocation inside          *)
(* Vec::resize aborts the process.                                         *)
(***************************************************************************)
C14_FailedGrowthReported ==
    inner.oom
        => /\ ~inner.panic
           /\ inner.res < 0
           /\ epc.at = "err"
           /\ inner.builder.data = inner.data.addr
           /\ inner.builder.size = Len(inner.data.bytes)

(***************************************************************************)
(* C15.  After a successful build of one object into a Vec that started    *)
(* with length 0, no frame is open, the Vec's length is exactly the number *)
(* of bytes written, and the size the closing pop wrote back at the        *)
(* object's start (offset 0) is the number of bytes written after the      *)
(* object's 8-byte (size, type) header, however often the Vec was          *)
(* reallocated between push_object and pop.                                *)
(***************************************************************************)
C15_BackpatchedSizeAfterGrowth ==
    (epc.at = "done" /\ Len(vec0.bytes) = 0)
        => /\ inner.builder.frame = <<>>
           /\ inner.builder.offset = ObjectSize(Len(props.list))
           /\ Len(inner.data.bytes) = inner.builder.offset
           /\ RD32(inner.data.bytes, 0) = inner.builder.offset - 8
           /\ RD32(inner.data.bytes, 4) = SPA_TYPE_Object
           /\ ~inner.stale

\* two properties built from a Vec without allocation: the capacity went
\* 16, 32, 64, and the Vec ended in another block than its first
C15_Witness ==
    /\ epc.at = "done"
    /\ Len(vec0.bytes) = 0 /\ vec0.cap = 0
    /\ Len(props.list) = 2
    /\ inner.data.cap = 64
    /\ inner.data.addr = 2
    /\ RD32(inner.data.bytes, 0) = 56

(***************************************************************************)
(* C16.  Building an object from a property list makes the encoder calls   *)
(* in the authored order: push_object, then per property its key and right *)
(* after it its value, then pop.  The first call that fails ends the build *)
(* with that call's error: no later call is made and the failed call wrote *)
(* nothing.  A completed build reads back as the authored list; for the    *)
(* format object the keys are media type, media subtype, pixel format,     *)
(* frame rectangle, frame rate.                                            *)
(***************************************************************************)
\* the calls the Object arm authors for a list
ExpectedCalls(plist) ==
    << "push_object" >>
        \o [i \in 1..(2 * Len(plist)) |->
               IF i % 2 = 1 THEN "add_prop" ELSE plist[i \div 2].t]
        \o << "pop" >>

\* bytes the first n calls of a list append: 16 for push_object, 8 for a
\* key, 16 for a value
CallsBytes(n) == IF n = 0 THEN 0 ELSE 16 + 8 * (n \div 2) + 16 * ((n - 1) \div 2)

C16_CallsInAuthoredOrder ==
    /\ [](/\ Len(ecalls) <= Len(ExpectedCalls(props.list))
          /\ ecalls = SubSeq(ExpectedCalls(props.list), 1, Len(ecalls))
          /\ epc.at = "done"
               => /\ ecalls = ExpectedCalls(props.list)
                  /\ Decode(PodBytes(inner.data.bytes)) =
                        Object(props.type_, props.id, props.list)
          /\ epc.at = "err"
               => /\ inner.res = -ENOSPC
                  /\ inner.builder.offset = CallsBytes(Len(ecalls) - 1)
          /\ Decode(FormatPod[0].pod).list = FormatProps
          /\ [k \in 1..5 |-> FormatProps[k].key] = <<1, 2, 131073, 131075, 131076>>)
    /\ [][ /\ epc.at = "err" => FALSE
           /\ (inner'.res < 0 /\ ~inner'.panic) => epc'.at = "err" ]_vars

\* the key of the second property failed: its value and the pop were not
\* called
C16_Witness ==
    /\ epc.at = "err"
    /\ Len(props.list) = 2
    /\ ecalls = << "push_object", "add_prop", props.list[1].t, "add_prop" >>
    /\ inner.builder.offset = 40

(***************************************************************************)
(* C17.  The hook's assert!(size > data.len()) never fails: whenever the   *)
(* encoder calls the hook the size it asks for exceeds the Vec's length,   *)
(* for Vecs of any initial length (0, too short, exactly long enough,      *)
(* longer) and any sequence of encoder calls.  (The only way the hook does *)
(* not return in the model is a failed allocation.)                        *)
(***************************************************************************)
C17_HookAssertionHolds ==
    /\ inner.panic => inner.oom
    /\ epc.at = "panic" => inner.oom
    /\ inner.builder.size = Len(inner.data.bytes)
    /\ Len(inner.data.bytes) >= Len(vec0.bytes)

\* the hook was called, more than once, on a Vec that was not empty: the
\* Vec of 20 bytes grew to 16 + 8 and then to 16 + 8 + 16 bytes
C17_Witness ==
    /\ Len(vec0.bytes) = 20
    /\ Len(inner.data.bytes) = 40
    /\ ~inner.panic

(***************************************************************************)
(* C18.  Every format object sent in answer to an EnumFormat query is      *)
(* byte-identical to the format object main handed to stream.connect:      *)
(* same object type and id, same keys, values and order.                   *)
(***************************************************************************)
C18_AnswerEqualsAdvertised ==
    /\ \A i \in 1..Len(sent) :
         sent[i].param \in EnumFormatIds
            => /\ sent[i].pods = advertised
               /\ Decode(sent[i].pods[1]) = Decode(advertised[1])
    /\ (ParamEvent /\ last.param = PARAM_EnumFormat15 /\ last.calls = 1)
          => LastSent.pods = advertised

\* an EnumFormat query was answered after the stream was connected
C18_Witness ==
    /\ pc = "running"
    /\ Len(advertised) = 1 /\ Len(advertised[1]) = 136
    /\ ParamEvent /\ last.param = PARAM_EnumFormat15 /\ last.calls = 1
    /\ LastSent.param = PARAM_EnumFormat15
    /\ LastSent.pods = advertised

(***************************************************************************)
(* C19.  On every capture tick the number of bytes process writes exceeds  *)
(* neither the length of the destination slice nor the length of the       *)
(* source, for every chunk size, slice length and source length; the       *)
(* slice keeps its length, and its bytes past the copy are untouched.      *)
(* (When min(chunk size, source length) exceeds the slice the closure      *)
(* panics before writing: nothing is written.)                             *)
(***************************************************************************)
C19_WritesWithinSliceAndSource ==
    (last.cb = "process" /\ last.slice >= 0 /\ last.ndatas > 0)
        => /\ last.copied <= last.slice
           /\ last.copied <= Len(bgra_data_clone)
           /\ Len(last.dst) = last.slice
           /\ panicked => (last.copied = -1 /\ last.dst = DstBefore(last.slice))
           /\ \A i \in 1..last.slice :
                 last.dst[i] = IF i <= last.copied THEN bgra_data_clone[i] ELSE 255

\* a chunk size above both lengths: the copy fills the 4-byte slice with the
\* whole 4-byte source
C19_Witness ==
    /\ last.cb = "process"
    /\ last.chunk = 5 /\ last.slice = 4
    /\ Len(bgra_data_clone) = 4
    /\ last.copied = 4
    /\ last.dst = bgra_data_clone

=============================================================================
